---- MODULE Spec2Model ----
(***************************************************************************)
(* Model of console_cleanup.py (ConsoleCleanupTool).                       *)
(*                                                                         *)
(* File contents are sequences of tokens.  A token is a piece of text that *)
(* none of the tool's regular expressions or substring tests can split:    *)
(* the five literals "console.error(" ... "console.log(", the comma, the   *)
(* closing parenthesis, a blank, a line break, and opaque pieces of text.  *)
(* The regular expressions of replace_console_statements are evaluated on  *)
(* tokens exactly as Python's re evaluates them on the characters:         *)
(* leftmost match, greedy groups, backtracking of the leading \s*.         *)
(*                                                                         *)
(* A path is the sequence of its parts (pathlib's Path.parts).             *)
(***************************************************************************)
EXTENDS Integers, Sequences, FiniteSets, TLC

VARIABLES
    fs,                    \* the files on disk: path -> content
    fs0,                   \* the files as they were before the first run
    snapshot,              \* the files as they were when the current run began
    shape,                 \* how the input content was built (which call form)
    pc,                    \* position in run_cleanup: start, process, done
    queue,                 \* files_to_process of the current run
    idx,                   \* position of the for loop over files_to_process
    files_processed,       \* self.files_processed
    statements_replaced,   \* self.statements_replaced
    logger_imports_added,  \* self.logger_imports_added
    calls,                 \* the paths process_file was called on in this run
    last,                  \* what the last process_file call did
    writtenLog,            \* the successful writes of this run
    opened,                \* the paths ever opened for writing
    visited,               \* the directories the last walk descended into
    reported,              \* the summary report was printed in this run
    verified,              \* the verification walk was made in this run
    remaining,             \* remaining_files of the verification walk
    runs,                  \* how many times the tool has been started
    faults                 \* I/O errors the environment may still raise

vars == <<fs, fs0, snapshot, shape, pc, queue, idx, files_processed,
          statements_replaced, logger_imports_added, calls, last, writtenLog,
          opened, visited, reported, verified, remaining, runs, faults>>

(***************************************************************************)
(* Bounds of the model.                                                    *)
(***************************************************************************)
MaxRuns == 2
MaxFaults == 2
MaxPieces == 2
MaxLen == 5
MaxArgLen == 2

(***************************************************************************)
(* Sequence helpers.                                                       *)
(***************************************************************************)
Range(s) == {s[i] : i \in 1..Len(s)}

SeqsUpTo(S, n) == UNION {[1..k -> S] : k \in 0..n}

RECURSIVE Repeat(_, _)
Repeat(s, n) == IF n <= 0 THEN <<>> ELSE s \o Repeat(s, n - 1)

RECURSIVE Flatten(_)
Flatten(ss) == IF Len(ss) = 0 THEN <<>> ELSE Head(ss) \o Flatten(Tail(ss))

SetToSeq(S) == CHOOSE f \in [1..Cardinality(S) -> S] : Range(f) = S

IsPrefix(s, t) == Len(s) <= Len(t) /\ SubSeq(t, 1, Len(s)) = s

(***************************************************************************)
(* Tokens.                                                                 *)
(***************************************************************************)
NL == "\n"
SP == " "
COMMA == ","
RPAREN == ")"

IsSpace(t) == t \in {SP, NL}

ConsoleTokens ==
    {"console.error(", "console.warn(", "console.info(", "console.debug(",
     "console.log(", "console.table("}

\* a test every content that is not empty passes
HasAnyText(content) == Len(content) > 0

\* 'console.' in content
HasConsole(content) == \E i \in 1..Len(content) : content[i] \in ConsoleTokens


(***************************************************************************)
(* get_relative_logger_path.  The returned string is modelled by its       *)
(* pieces: "../" repeated, "./", "src/", "utils/logger".                   *)
(***************************************************************************)
FirstIndex(parts, name) ==
    CHOOSE i \in 1..Len(parts) :
        parts[i] = name /\ \A j \in 1..(i - 1) : parts[j] # name

\* depth = len(parts) - src_index - 1, src_index counted from 0
SrcDepth(parts) == Len(parts) - (FirstIndex(parts, "src") - 1) - 1

get_relative_logger_path(parts) ==
    IF "app" \in Range(parts)
    THEN <<"../", "src/", "utils/logger">>
    ELSE IF "components" \in Range(parts) /\ "src" \notin Range(parts)
    THEN <<"../", "src/", "utils/logger">>
    ELSE IF "src" \in Range(parts)
    THEN Repeat(<<"../">>, SrcDepth(parts)) \o <<"utils/logger">>
    ELSE <<"./", "src/", "utils/logger">>

(***************************************************************************)
(* add_logger_import.                                                      *)
(***************************************************************************)
\* the f-string of the import line, for a logger path
ImportLine(logger_path) ==
    <<"import", SP, "{", SP, "logError", COMMA, SP, "logWarn", COMMA, SP,
      "logInfo", COMMA, SP, "logDebug", COMMA, SP, "logUserAction", SP, "}",
      SP, "from", SP, "\"">> \o logger_path \o <<"\"", ";">>

\* content.split('\n'): line k runs from after the (k-1)-th line break to
\* before the k-th
Breaks(content) == {i \in 1..Len(content) : content[i] = NL}

NthBreak(content, k) ==
    IF k = 0 THEN 0
    ELSE IF k > Cardinality(Breaks(content)) THEN Len(content) + 1
    ELSE CHOOSE i \in Breaks(content) :
             Cardinality({j \in Breaks(content) : j < i}) = k - 1

SplitLines(content) ==
    [k \in 1..(Cardinality(Breaks(content)) + 1) |->
        SubSeq(content, NthBreak(content, k - 1) + 1, NthBreak(content, k) - 1)]

\* '\n'.join(lines)
RECURSIVE JoinLines(_)
JoinLines(lines) ==
    IF Len(lines) = 0 THEN <<>>
    ELSE IF Len(lines) = 1 THEN lines[1]
    ELSE lines[1] \o <<NL>> \o JoinLines(Tail(lines))

\* line.strip()
Strip(line) ==
    LET solid == {i \in 1..Len(line) : ~IsSpace(line[i])}
    IN  IF solid = {} THEN <<>>
        ELSE SubSeq(line,
                    CHOOSE i \in solid : \A j \in solid : i <= j,
                    CHOOSE i \in solid : \A j \in solid : j <= i)

\* line.strip().startswith('import ')
IsImportLine(line) ==
    LET t == Strip(line)
    IN  Len(t) >= 2 /\ t[1] = "import" /\ t[2] = SP

\* the index (from 0) of the last import line, -1 when there is none
LastImportIndex(lines) ==
    LET imports == {i \in 1..Len(lines) : IsImportLine(lines[i])}
    IN  IF imports = {} THEN -1
        ELSE (CHOOSE i \in imports : \A j \in imports : j <= i) - 1

\* lines.insert(k, x), k counted from 0
InsertAt(lines, k, x) ==
    SubSeq(lines, 1, k) \o <<x>> \o SubSeq(lines, k + 1, Len(lines))

\* 'from' in content and 'utils/logger' in content
HasLoggerImport(content) ==
    "from" \in Range(content) /\ "utils/logger" \in Range(content)

\* the insertion made whatever the content already imports
add_logger_import_always(content, parts) ==
    LET lines == SplitLines(content)
        line  == ImportLine(get_relative_logger_path(parts))
    IN  [content |-> JoinLines(InsertAt(lines, LastImportIndex(lines) + 1, line)),
         added   |-> TRUE]

add_logger_import(content, parts) ==
    IF HasLoggerImport(content)
    THEN [content |-> content, added |-> FALSE]
    ELSE LET lines == SplitLines(content)
             line  == ImportLine(get_relative_logger_path(parts))
         IN  [content |-> JoinLines(InsertAt(lines, LastImportIndex(lines) + 1, line)),
              added   |-> TRUE]

(***************************************************************************)
(* replace_console_statements.                                             *)
(***************************************************************************)
Rule(lit, two, fn, label) == [lit |-> lit, two |-> two, fn |-> fn, label |-> label]

\* the one-argument rule of each severity placed before its two-argument rule
PatternsOneArgumentFirst ==
    << Rule("console.error(", FALSE, "logError(", "\"Error\""),
       Rule("console.error(", TRUE,  "logError(", "\"Error\""),
       Rule("console.warn(",  FALSE, "logWarn(",  "\"Warning\""),
       Rule("console.warn(",  TRUE,  "logWarn(",  "\"Warning\""),
       Rule("console.info(",  FALSE, "logInfo(",  "\"Info\""),
       Rule("console.info(",  TRUE,  "logInfo(",  "\"Info\""),
       Rule("console.debug(", FALSE, "logDebug(", "\"Debug\""),
       Rule("console.debug(", TRUE,  "logDebug(", "\"Debug\""),
       Rule("console.log(",   FALSE, "logDebug(", "\"Debug\""),
       Rule("console.log(",   TRUE,  "logDebug(", "\"Debug\"") >>

\* patterns: for each severity the two-argument rule, then the one-argument rule
Patterns ==
    << Rule("console.error(", TRUE,  "logError(", "\"Error\""),
       Rule("console.error(", FALSE, "logError(", "\"Error\""),
       Rule("console.warn(",  TRUE,  "logWarn(",  "\"Warning\""),
       Rule("console.warn(",  FALSE, "logWarn(",  "\"Warning\""),
       Rule("console.info(",  TRUE,  "logInfo(",  "\"Info\""),
       Rule("console.info(",  FALSE, "logInfo(",  "\"Info\""),
       Rule("console.debug(", TRUE,  "logDebug(", "\"Debug\""),
       Rule("console.debug(", FALSE, "logDebug(", "\"Debug\""),
       Rule("console.log(",   TRUE,  "logDebug(", "\"Debug\""),
       Rule("console.log(",   FALSE, "logDebug(", "\"Debug\"") >>

\* the first index >= i of a token in stops, 0 when there is none
FirstOf(s, i, stops) ==
    LET hits == {j \in i..Len(s) : s[j] \in stops}
    IN  IF hits = {} THEN 0 ELSE CHOOSE j \in hits : \A k \in hits : j <= k

\* what "\s*(group)" captures of a non-empty run the group's class accepts
\* whole: \s* takes the leading white space; when the run is all white space
\* it gives the last one back to the group, which needs one character
Group(run) ==
    LET solid == {i \in 1..Len(run) : ~IsSpace(run[i])}
    IN  IF solid = {} THEN <<run[Len(run)]>>
        ELSE SubSeq(run, CHOOSE i \in solid : \A j \in solid : i <= j, Len(run))

NoMatch == [ok |-> FALSE, end |-> 0, text |-> <<>>]

\* r'console\.X\(\s*([^,)]+),\s*([^)]+)\)' -> r'logX(\1, "L", \2)' at s[i]
MatchTwo(rule, s, i) ==
    LET c == FirstOf(s, i + 1, {COMMA, RPAREN})
        j == IF c = 0 THEN 0 ELSE FirstOf(s, c + 1, {RPAREN})
    IN  IF s[i] # rule.lit \/ c = 0 \/ c = i + 1 \/ j = 0 THEN NoMatch
        ELSE IF s[c] # COMMA \/ j = c + 1 THEN NoMatch
        ELSE [ok   |-> TRUE,
              end  |-> j,
              text |-> <<rule.fn>> \o Group(SubSeq(s, i + 1, c - 1))
                       \o <<COMMA, SP, rule.label, COMMA, SP>>
                       \o Group(SubSeq(s, c + 1, j - 1)) \o <<RPAREN>>]

\* r'console\.X\(\s*([^)]+)\)' -> r'logX(\1, "L")' at s[i]
MatchOne(rule, s, i) ==
    LET j == FirstOf(s, i + 1, {RPAREN})
    IN  IF s[i] # rule.lit \/ j = 0 \/ j = i + 1 THEN NoMatch
        ELSE [ok   |-> TRUE,
              end  |-> j,
              text |-> <<rule.fn>> \o Group(SubSeq(s, i + 1, j - 1))
                       \o <<COMMA, SP, rule.label, RPAREN>>]

MatchAt(rule, s, i) == IF rule.two THEN MatchTwo(rule, s, i) ELSE MatchOne(rule, s, i)

\* re.subn(pattern, replacement, content): the matches from left to right,
\* none overlapping another; the text between two matches is kept
RECURSIVE SubnFrom(_, _, _)
SubnFrom(rule, s, i) ==
    LET starts == {j \in i..Len(s) : MatchAt(rule, s, j).ok}
    IN  IF starts = {} THEN [content |-> SubSeq(s, i, Len(s)), count |-> 0]
        ELSE LET j    == CHOOSE k \in starts : \A l \in starts : k <= l
                 m    == MatchAt(rule, s, j)
                 rest == SubnFrom(rule, s, m.end + 1)
             IN  [content |-> SubSeq(s, i, j - 1) \o m.text \o rest.content,
                  count   |-> rest.count + 1]

Subn(rule, s) == SubnFrom(rule, s, 1)

\* the loop over patterns, from rule k on
RECURSIVE ApplyRules(_, _, _)
ApplyRules(rules, k, acc) ==
    IF k > Len(rules) THEN acc
    ELSE LET r == Subn(rules[k], acc.content)
         IN  ApplyRules(rules, k + 1,
                        [content |-> r.content, count |-> acc.count + r.count])

replace_console_statements(content) ==
    ApplyRules(Patterns, 1, [content |-> content, count |-> 0])


(***************************************************************************)
(* should_process_file.                                                    *)
(***************************************************************************)
\* exclude_dirs of should_process_file
ExcludeDirs == {"node_modules", ".expo", "dist", "build", ".next", "__pycache__"}

\* the list find_files_with_console prunes the walk with
PruneDirs == {"node_modules", ".expo", "dist", "build", ".next"}

\* the exclusion names that occur in one part of a path (exclude_dir in str(path));
\* no exclusion name holds a separator, so none spans two parts
NamesIn(part) ==
    CASE part = "node_modules" -> {"node_modules"}
      [] part = "__pycache__"  -> {"__pycache__"}
      [] part = "build"        -> {"build"}
      [] part = "rebuild"      -> {"build"}
      [] OTHER                 -> {}

\* file_path.suffix
Suffix(name) ==
    CASE name \in {"Login.tsx", "F.tsx"}                 -> ".tsx"
      [] name \in {"index.ts", "lib.ts", "gen.ts", "x.ts"} -> ".ts"
      [] name = "README.md"                               -> ".md"
      [] OTHER                                            -> ""

should_process_file(parts) ==
    IF \E i \in 1..Len(parts) : NamesIn(parts[i]) \cap ExcludeDirs # {}
    THEN FALSE
    ELSE Suffix(parts[Len(parts)]) \in {".ts", ".tsx"}

(***************************************************************************)
(* find_files_with_console: os.walk from the root, top down.               *)
(***************************************************************************)
FilesIn(fsys, d) ==
    {p \in DOMAIN fsys : Len(p) = Len(d) + 1 /\ IsPrefix(d, p)}

SubDirs(fsys, d) ==
    {SubSeq(p, 1, Len(d) + 1) :
        p \in {q \in DOMAIN fsys : Len(q) > Len(d) + 1 /\ IsPrefix(d, q)}}

\* dirs[:] = [d for d in dirs if d not in [...]]
Pruned(dirs) == {d \in dirs : d[Len(d)] \notin PruneDirs}

\* the test that queues a file; a file whose read raises is passed over
Queued(fsys, unreadable, p) ==
    /\ Suffix(p[Len(p)]) \in {".ts", ".tsx"}
    /\ should_process_file(p)
    /\ p \notin unreadable
    /\ HasConsole(fsys[p])

RECURSIVE Walk(_, _, _), WalkEach(_, _, _)
Walk(fsys, unreadable, d) ==
    LET Test(p) == Queued(fsys, unreadable, p)
        here    == SelectSeq(SetToSeq(FilesIn(fsys, d)), Test)
        below   == WalkEach(fsys, unreadable, SetToSeq(Pruned(SubDirs(fsys, d))))
    IN  [files |-> here \o below.files, visited |-> {d} \cup below.visited]

WalkEach(fsys, unreadable, ds) ==
    IF Len(ds) = 0 THEN [files |-> <<>>, visited |-> {}]
    ELSE LET first == Walk(fsys, unreadable, Head(ds))
             rest  == WalkEach(fsys, unreadable, Tail(ds))
         IN  [files   |-> first.files \o rest.files,
              visited |-> first.visited \cup rest.visited]

find_files_with_console(fsys, unreadable) == Walk(fsys, unreadable, <<>>)

(***************************************************************************)
(* process_file.  io is what the environment does to this call: "ok",      *)
(* "read_error" (open or read raises), "open_error" (open for writing      *)
(* raises, the file is untouched), "write_error" (the write raises after   *)
(* the file was truncated: the file keeps nothing, half, or all but the    *)
(* last token of what was being written).                                  *)
(***************************************************************************)
IOOutcomes == {"ok", "read_error", "open_error", "write_error"}

Truncations == {"empty", "half", "most"}

Truncated(content, cut) ==
    SubSeq(content, 1,
           CASE cut = "half" -> Len(content) \div 2
             [] cut = "most" -> Len(content) - 1
             [] OTHER        -> 0)

Outcome(ret, disk, wrote, truncated, original, imp, rep, files, stmts) ==
    [ret |-> ret, disk |-> disk, wrote |-> wrote, truncated |-> truncated,
     original |-> original, before |-> imp.content, after |-> rep.content,
     import_added |-> imp.added, replacements |-> rep.count,
     files_inc |-> files, stmts_inc |-> stmts,
     imports_inc |-> IF imp.added THEN 1 ELSE 0]

NoImport(content) == [content |-> content, added |-> FALSE]
NoRewrite(content) == [content |-> content, count |-> 0]

\* the counters moved before the write: a write that raises is counted
process_file_counting_first(content, parts, io, cut) ==
    IF io = "read_error"
    THEN Outcome(FALSE, content, "no", FALSE, <<>>, NoImport(<<>>), NoRewrite(<<>>), 0, 0)
    ELSE IF ~HasConsole(content)
    THEN Outcome(FALSE, content, "no", FALSE, content,
                 NoImport(content), NoRewrite(content), 0, 0)
    ELSE LET withImport == add_logger_import(content, parts)
             rewritten  == replace_console_statements(withImport.content)
         IN  IF rewritten.content # content
             THEN CASE io = "open_error" ->
                         Outcome(FALSE, content, "failed", FALSE, content,
                                 withImport, rewritten, 1, rewritten.count)
                    [] io = "write_error" ->
                         Outcome(FALSE, Truncated(rewritten.content, cut), "failed", TRUE,
                                 content, withImport, rewritten, 1, rewritten.count)
                    [] OTHER ->
                         Outcome(TRUE, rewritten.content, "ok", TRUE, content,
                                 withImport, rewritten, 1, rewritten.count)
             ELSE Outcome(FALSE, content, "no", FALSE, content,
                          withImport, rewritten, 0, 0)

process_file(content, parts, io, cut) ==
    IF io = "read_error"
    THEN Outcome(FALSE, content, "no", FALSE, <<>>, NoImport(<<>>), NoRewrite(<<>>), 0, 0)
    ELSE IF ~HasConsole(content)
    THEN Outcome(FALSE, content, "no", FALSE, content,
                 NoImport(content), NoRewrite(content), 0, 0)
    ELSE LET withImport == add_logger_import(content, parts)
             rewritten  == replace_console_statements(withImport.content)
         IN  IF rewritten.content # content
             THEN CASE io = "open_error" ->
                         Outcome(FALSE, content, "failed", FALSE, content,
                                 withImport, rewritten, 0, 0)
                    [] io = "write_error" ->
                         Outcome(FALSE, Truncated(rewritten.content, cut), "failed", TRUE,
                                 content, withImport, rewritten, 0, 0)
                    [] OTHER ->
                         Outcome(TRUE, rewritten.content, "ok", TRUE, content,
                                 withImport, rewritten, 1, rewritten.count)
             ELSE Outcome(FALSE, content, "no", FALSE, content,
                          withImport, rewritten, 0, 0)

(***************************************************************************)
(* The inputs.                                                             *)
(***************************************************************************)
\* lines a source file is made of
LogCall      == <<"console.log(", "x", RPAREN, NL>>
TableCall    == <<"console.table(", "x", RPAREN, NL>>
OtherImport  == <<"import", SP, "React", SP, "from", SP, "\"react\"", ";", NL>>
LoggerImport == <<"import", SP, "{ logDebug }", SP, "from", SP, "\"", "../",
                  "utils/logger", "\"", ";", NL>>
PlainLine    == <<"x", ";", NL>>

Pieces == {LogCall, TableCall, OtherImport, LoggerImport, PlainLine}

PieceContents == {Flatten(ps) : ps \in SeqsUpTo(Pieces, MaxPieces)}

\* the tree: two source files the tool may rewrite, and four it must not touch
LoginFile   == <<"src", "screens", "Login.tsx">>
IndexFile   == <<"app", "index.ts">>
ModuleFile  == <<"node_modules", "lib.ts">>
CacheFile   == <<"__pycache__", "gen.ts">>
RebuildFile == <<"src", "rebuild", "x.ts">>
ReadmeFile  == <<"README.md">>
SingleFile  == <<"F.tsx">>

SourceFiles == {LoginFile, IndexFile}
OtherFiles  == {ModuleFile, CacheFile, RebuildFile, ReadmeFile}

\* the five severities and the literal that opens a call of each
Severities == {"error", "warn", "info", "debug", "log"}

Literal(sev) == "console." \o sev \o "("

\* arguments without comma or parenthesis: an identifier, a string literal,
\* possibly followed by more tokens of the expression
ArgTokens == {"x", "\"msg\"", SP}
Args == {a \in SeqsUpTo(ArgTokens, MaxArgLen) : Len(a) >= 1 /\ ~IsSpace(a[1])}

\* one-argument messages: an identifier, a string literal, a string literal
\* with a comma in it
Messages == {<<"x">>, <<"\"msg\"">>, <<"\"Hello", COMMA, SP, "world\"">>}

Blanks == {<<>>, <<SP>>}

\* what stands before and after the call in the file
Contexts == {[pre |-> <<>>, post |-> <<>>],
             [pre |-> <<"x", ";", NL>>, post |-> <<";", NL>>]}

NoShape ==
    [kind |-> "tree", sev |-> "", ws1 |-> <<>>, a |-> <<>>, ws2 |-> <<>>,
     b |-> <<>>, pre |-> <<>>, post |-> <<>>]

TwoArgCall(sh) ==
    <<Literal(sh.sev)>> \o sh.ws1 \o sh.a \o <<COMMA>> \o sh.ws2 \o sh.b \o <<RPAREN>>

OneArgCall(sh) == <<Literal(sh.sev)>> \o sh.ws1 \o sh.a \o <<RPAREN>>

CallShapes ==
    {[kind |-> "call2", sev |-> sev, ws1 |-> w1, a |-> a, ws2 |-> w2, b |-> b,
      pre |-> c.pre, post |-> c.post] :
        sev \in Severities, w1 \in Blanks, a \in Args, w2 \in Blanks, b \in Args,
        c \in Contexts}
    \cup
    {[kind |-> "call1", sev |-> sev, ws1 |-> w1, a |-> m, ws2 |-> <<>>, b |-> <<>>,
      pre |-> c.pre, post |-> c.post] :
        sev \in Severities, w1 \in Blanks, m \in Messages, c \in Contexts}

ShapeContent(sh) ==
    sh.pre \o (IF sh.kind = "call2" THEN TwoArgCall(sh) ELSE OneArgCall(sh)) \o sh.post

\* arbitrary texts over the tokens the rewrite rules look at
TextTokens == {"console.log(", "console.error(", "x", COMMA, RPAREN}
Texts == SeqsUpTo(TextTokens, MaxLen)

(***************************************************************************)
(* The state machine: run_cleanup, and starting the tool again.            *)
(***************************************************************************)
NoCall ==
    [called |-> FALSE, path |-> <<>>, io |-> "ok"] @@
    Outcome(FALSE, <<>>, "no", FALSE, <<>>, NoImport(<<>>), NoRewrite(<<>>), 0, 0)

InitWith(files, sh, nfaults) ==
    /\ fs = files
    /\ fs0 = files
    /\ snapshot = files
    /\ shape = sh
    /\ pc = "start"
    /\ queue = <<>>
    /\ idx = 1
    /\ files_processed = 0
    /\ statements_replaced = 0
    /\ logger_imports_added = 0
    /\ calls = <<>>
    /\ last = NoCall
    /\ writtenLog = <<>>
    /\ opened = {}
    /\ visited = {}
    /\ reported = FALSE
    /\ verified = FALSE
    /\ remaining = <<>>
    /\ runs = 1
    /\ faults = nfaults

\* a source tree, reads and writes may fail
Init ==
    \E c1 \in PieceContents, c2 \in {<<>>, LogCall} :
        InitWith([p \in SourceFiles \cup OtherFiles |->
                     IF p = LoginFile THEN c1 ELSE IF p = IndexFile THEN c2 ELSE LogCall],
                 NoShape, MaxFaults)

\* one file holding an arbitrary text, no I/O error
InitText ==
    \E t \in Texts :
        InitWith([p \in {SingleFile} |-> t], [NoShape EXCEPT !.kind = "text"], 0)

\* one file holding one console call of one or two arguments, no I/O error
InitCalls ==
    \E sh \in CallShapes :
        InitWith([p \in {SingleFile} |-> ShapeContent(sh)], sh, 0)

\* files_to_process = self.find_files_with_console(); return when it is empty
Discover ==
    /\ pc = "start"
    /\ \E F \in SUBSET Range(find_files_with_console(fs, {}).files) :
         /\ Cardinality(F) <= faults
         /\ \E w \in {find_files_with_console(fs, F)} :
              /\ queue' = w.files
              /\ visited' = w.visited
              /\ pc' = IF Len(w.files) = 0 THEN "done" ELSE "process"
         /\ faults' = faults - Cardinality(F)
    /\ idx' = 1
    /\ UNCHANGED <<fs, fs0, snapshot, shape, files_processed, statements_replaced,
                   logger_imports_added, calls, last, writtenLog, opened, reported,
                   verified, remaining, runs>>

\* one turn of "for file_path in files_to_process: self.process_file(file_path)"
ProcessFile ==
    /\ pc = "process"
    /\ idx <= Len(queue)
    /\ \E io \in IOOutcomes :
         /\ io # "ok" => faults > 0
         /\ \E cut \in IF io = "write_error" THEN Truncations ELSE {"empty"} :
              \E r \in {process_file(fs[queue[idx]], queue[idx], io, cut)} :
                 /\ io \in {"open_error", "write_error"} => r.wrote = "failed"
                 /\ fs' = [fs EXCEPT ![queue[idx]] = r.disk]
                 /\ files_processed' = files_processed + r.files_inc
                 /\ statements_replaced' = statements_replaced + r.stmts_inc
                 /\ logger_imports_added' = logger_imports_added + r.imports_inc
                 /\ last' = [called |-> TRUE, path |-> queue[idx], io |-> io] @@ r
                 /\ writtenLog' =
                        IF r.wrote = "ok"
                        THEN Append(writtenLog,
                                    [path |-> queue[idx],
                                     replacements |-> r.replacements,
                                     import_added |-> r.import_added])
                        ELSE writtenLog
                 /\ opened' = IF r.truncated THEN opened \cup {queue[idx]} ELSE opened
         /\ faults' = IF io = "ok" THEN faults ELSE faults - 1
    /\ calls' = Append(calls, queue[idx])
    /\ idx' = idx + 1
    /\ UNCHANGED <<fs0, snapshot, shape, pc, queue, visited, reported, verified,
                   remaining, runs>>

\* the summary report, then remaining_files = self.find_files_with_console()
Report ==
    /\ pc = "process"
    /\ idx > Len(queue)
    /\ reported' = TRUE
    /\ \E F \in SUBSET Range(find_files_with_console(fs, {}).files) :
         /\ Cardinality(F) <= faults
         /\ \E w \in {find_files_with_console(fs, F)} :
              /\ remaining' = w.files
              /\ visited' = w.visited
         /\ faults' = faults - Cardinality(F)
    /\ verified' = TRUE
    /\ pc' = "done"
    /\ UNCHANGED <<fs, fs0, snapshot, shape, queue, idx, files_processed,
                   statements_replaced, logger_imports_added, calls, last,
                   writtenLog, opened, runs>>

\* the tool is started again: ConsoleCleanupTool() and run_cleanup()
Restart ==
    /\ pc = "done"
    /\ runs < MaxRuns
    /\ runs' = runs + 1
    /\ pc' = "start"
    /\ snapshot' = fs
    /\ queue' = <<>>
    /\ idx' = 1
    /\ files_processed' = 0
    /\ statements_replaced' = 0
    /\ logger_imports_added' = 0
    /\ calls' = <<>>
    /\ last' = NoCall
    /\ writtenLog' = <<>>
    /\ visited' = {}
    /\ reported' = FALSE
    /\ verified' = FALSE
    /\ remaining' = <<>>
    /\ UNCHANGED <<fs, fs0, shape, opened, faults>>

Next == Discover \/ ProcessFile \/ Report \/ Restart

Spec == Init /\ [][Next]_vars

SpecText == InitText /\ [][Next]_vars

SpecCalls == InitCalls /\ [][Next]_vars


(***************************************************************************)
(* What the properties are stated with.                                    *)
(***************************************************************************)
\* the log function and the label each severity is to be rewritten to
ExpectedFunction(sev) ==
    CASE sev = "error" -> "logError("
      [] sev = "warn"  -> "logWarn("
      [] sev = "info"  -> "logInfo("
      [] OTHER         -> "logDebug("

ExpectedLabel(sev) ==
    CASE sev = "error" -> "\"Error\""
      [] sev = "warn"  -> "\"Warning\""
      [] sev = "info"  -> "\"Info\""
      [] OTHER         -> "\"Debug\""

\* the place of the two-argument rule of a severity in the list of patterns
TwoArgumentRule(sev) ==
    CASE sev = "error" -> 1
      [] sev = "warn"  -> 3
      [] sev = "info"  -> 5
      [] sev = "debug" -> 7
      [] OTHER         -> 9

\* what add_logger_import put in front of the original content
Inserted(call) == SubSeq(call.before, 1, Len(call.before) - Len(call.original))

\* the content mentions 'console.'
MentionsConsole(content) ==
    \E i \in 1..Len(content) :
        content[i] \in {"console.error(", "console.warn(", "console.info(",
                        "console.debug(", "console.log(", "console.table("}

\* the logging module, from the project root
LoggerModule == <<"src", "utils", "logger">>

DirOf(parts) == SubSeq(parts, 1, Len(parts) - 1)

\* the segments of a relative path given by its pieces
RECURSIVE Segments(_)
Segments(pieces) ==
    IF Len(pieces) = 0 THEN <<>>
    ELSE (CASE Head(pieces) = "../"          -> <<"..">>
            [] Head(pieces) = "./"           -> <<".">>
            [] Head(pieces) = "src/"         -> <<"src">>
            [] Head(pieces) = "utils/logger" -> <<"utils", "logger">>
            [] OTHER                         -> <<Head(pieces)>>)
         \o Segments(Tail(pieces))

\* a relative path resolved against a directory of the project
RECURSIVE Resolve(_, _)
Resolve(dir, segs) ==
    IF Len(segs) = 0 THEN dir
    ELSE IF Head(segs) = "." THEN Resolve(dir, Tail(segs))
    ELSE IF Head(segs) = ".."
    THEN IF Len(dir) = 0 \/ dir[Len(dir)] = ".."
         THEN Resolve(Append(dir, ".."), Tail(segs))
         ELSE Resolve(DirOf(dir), Tail(segs))
    ELSE Resolve(Append(dir, Head(segs)), Tail(segs))

\* a line imports from the logging module
IsLoggerImportLine(line) ==
    IsImportLine(line) /\ "from" \in Range(line) /\ "utils/logger" \in Range(line)

HasLoggerImportLine(content) ==
    \E k \in 1..Len(SplitLines(content)) : IsLoggerImportLine(SplitLines(content)[k])

\* the complete import lines of the tool in a content
ToolImports(content) ==
    Cardinality({k \in 1..Len(SplitLines(content)) :
                    /\ IsLoggerImportLine(SplitLines(content)[k])
                    /\ "logUserAction" \in Range(SplitLines(content)[k])})

\* the exclusion names, and the paths a write is allowed on
ExclusionNames == {"node_modules", ".expo", "dist", "build", ".next", "__pycache__"}

Allowed(p) ==
    /\ p[Len(p)] \in {"Login.tsx", "index.ts", "lib.ts", "gen.ts", "x.ts", "F.tsx"}
    /\ \A i \in 1..Len(p) : p[i] \notin {"node_modules", "__pycache__", "rebuild"}

RECURSIVE SumReplacements(_)
SumReplacements(log) ==
    IF Len(log) = 0 THEN 0 ELSE Head(log).replacements + SumReplacements(Tail(log))

ImportsWritten(log) == Cardinality({k \in 1..Len(log) : log[k].import_added})

(***************************************************************************)
(* C1.  Idempotence: a second run of the tool changes nothing, for every   *)
(* content, a console call inside another of the same severity included.   *)
(* Fails: console.log(console.log(x) is rewritten again by the second run. *)
(***************************************************************************)
C1_SecondRunChangesNothing == runs >= 2 => fs = snapshot

(***************************************************************************)
(* C2.  A call with two arguments a, b (no comma, no parenthesis in them)  *)
(* is rewritten by the two-argument rule of its severity to                *)
(* logX(a, LABEL, b), and that is one replacement.                         *)
(***************************************************************************)
C2_TwoArgumentCall ==
    (shape.kind = "call2" /\ last.called) =>
        /\ last.original = ShapeContent(shape)
        /\ last.before = Inserted(last) \o last.original
        /\ last.after = Inserted(last) \o shape.pre
                        \o <<ExpectedFunction(shape.sev)>> \o shape.a
                        \o <<COMMA, SP, ExpectedLabel(shape.sev), COMMA, SP>>
                        \o shape.b \o <<RPAREN>> \o shape.post
        /\ last.replacements = 1
        /\ Subn(Patterns[TwoArgumentRule(shape.sev)], last.before)
               = [content |-> last.after, count |-> 1]
        /\ fs[last.path] = last.after

C2_Witness ==
    /\ shape.kind = "call2"
    /\ shape.sev = "error"
    /\ shape.ws1 = <<SP>>
    /\ shape.pre # <<>>
    /\ last.called
    /\ last.replacements = 1
    /\ pc = "done"

(***************************************************************************)
(* C3.  A call with one argument m (an identifier or a string literal) is  *)
(* rewritten to logX(m, LABEL).                                            *)
(* Fails for a string literal with a comma in it.                          *)
(***************************************************************************)
C3_OneArgumentCall ==
    (shape.kind = "call1" /\ last.called) =>
        /\ last.after = Inserted(last) \o shape.pre
                        \o <<ExpectedFunction(shape.sev)>> \o shape.a
                        \o <<COMMA, SP, ExpectedLabel(shape.sev), RPAREN>> \o shape.post
        /\ last.replacements = 1

(***************************************************************************)
(* C4.  For every file the walk queues, the path get_relative_logger_path  *)
(* returns, resolved against the directory of the file, is the logging     *)
(* module src/utils/logger.                                                *)
(* Fails for src/screens/Login.tsx: ../../utils/logger is utils/logger.    *)
(***************************************************************************)
C4_LoggerPathResolves ==
    \A i \in 1..Len(queue) :
        Resolve(DirOf(queue[i]), Segments(get_relative_logger_path(queue[i])))
            = LoggerModule

(***************************************************************************)
(* C5.  A file that already imports from the logging module gets no        *)
(* import: add_logger_import returns it unchanged, with flag False and no  *)
(* count; and no file ever holds more than one import line of the tool     *)
(* beyond those it began with.                                             *)
(***************************************************************************)
C5_NoDuplicateImport ==
    /\ (last.called /\ last.io # "read_error" /\ HasLoggerImportLine(last.original)) =>
           /\ ~last.import_added
           /\ last.imports_inc = 0
           /\ last.before = last.original
    /\ \A p \in DOMAIN fs : ToolImports(fs[p]) <= ToolImports(fs0[p]) + 1

C5_Witness ==
    /\ last.called
    /\ last.io = "ok"
    /\ HasLoggerImportLine(last.original)
    /\ last.replacements = 1
    /\ last.ret
    /\ runs = 2
    /\ \E p \in DOMAIN fs : ToolImports(fs[p]) = 1

(***************************************************************************)
(* C6.  A file without 'console.' is never queued, never opened for        *)
(* writing, and keeps its content over every run; process_file on it       *)
(* returns False and changes no counter.                                   *)
(***************************************************************************)
C6_NoConsoleUntouched ==
    \A p \in DOMAIN fs :
        ~MentionsConsole(fs0[p]) =>
            /\ fs[p] = fs0[p]
            /\ p \notin Range(queue)
            /\ p \notin Range(remaining)
            /\ p \notin Range(calls)
            /\ p \notin opened
            /\ \A io \in {"ok", "open_error", "write_error"} :
                   LET r == process_file(fs[p], p, io, "empty")
                   IN  /\ ~r.ret
                       /\ r.disk = fs[p]
                       /\ r.wrote = "no"
                       /\ ~r.import_added
                       /\ r.files_inc = 0 /\ r.stmts_inc = 0 /\ r.imports_inc = 0

C6_Witness ==
    /\ pc = "done"
    /\ verified
    /\ runs = 2
    /\ ~MentionsConsole(fs0[LoginFile])
    /\ fs0[LoginFile] # <<>>
    /\ files_processed = 1
    /\ fs[IndexFile] # fs0[IndexFile]

(***************************************************************************)
(* C7.  No failure of one file is fatal: process_file is called once on    *)
(* each queued file, in the order of the queue; a call that fails returns  *)
(* False and counts neither a file nor a statement; the run goes on to the *)
(* summary report and the verification walk.                               *)
(* As stated, for every list of queued files: fails for the empty list,    *)
(* where run_cleanup returns before the summary.                           *)
(***************************************************************************)
C7_CallsInOrder ==
    /\ IsPrefix(calls, queue)
    /\ (pc = "process") => Len(calls) = idx - 1
    /\ (last.called /\ last.io # "ok") =>
           /\ ~last.ret
           /\ last.files_inc = 0
           /\ last.stmts_inc = 0

C7_EveryQueueReachesSummary ==
    /\ C7_CallsInOrder
    /\ (pc = "done") => (calls = queue /\ reported /\ verified)

\* amended: for every list of queued files that is not empty
C7_NoFailureIsFatal ==
    /\ C7_CallsInOrder
    /\ (pc = "done" /\ Len(queue) > 0) => (calls = queue /\ reported /\ verified)
    /\ (pc = "done" /\ Len(queue) = 0) => (~reported /\ ~verified)

C7_Witness ==
    /\ pc = "done"
    /\ runs = 1
    /\ Len(queue) = 2
    /\ calls = queue
    /\ reported
    /\ verified
    /\ Len(writtenLog) = 1
    /\ writtenLog[1].path = queue[2]
    /\ queue[1] \in opened
    /\ fs[queue[1]] # fs0[queue[1]]

(***************************************************************************)
(* C8.  Only .ts and .tsx files outside the excluded directories are       *)
(* written, the others keep their content, and no walk descends into a     *)
(* directory named node_modules, .expo, dist, build, .next or __pycache__. *)
(* Fails: the walk descends into __pycache__, which the pruning list of    *)
(* find_files_with_console leaves out.                                     *)
(***************************************************************************)
C8_OnlyIncludedFiles ==
    /\ \A p \in opened : Allowed(p)
    /\ \A p \in DOMAIN fs : ~Allowed(p) => fs[p] = fs0[p]
    /\ \A d \in visited : \A i \in 1..Len(d) : d[i] \notin ExclusionNames

(***************************************************************************)
(* C9.  process_file writes a file only when it replaced a statement in    *)
(* it: a write, and so an inserted import line, goes with replacements     *)
(* >= 1.                                                                   *)
(* Fails: a file with console.table(x) only gets the import line.          *)
(***************************************************************************)
C9_WriteOnlyWhenReplaced ==
    (last.called /\ last.wrote # "no") => last.replacements >= 1

(***************************************************************************)
(* C10.  After every process_file call the counters agree with the disk:   *)
(* files_processed is the number of files written, statements_replaced the *)
(* sum of their replacements, logger_imports_added the number of written   *)
(* files that got an import line, which is at most files_processed.        *)
(* Fails: a write that raises leaves logger_imports_added counted.         *)
(***************************************************************************)
C10_CountersAgreeWithDisk ==
    /\ files_processed = Len(writtenLog)
    /\ statements_replaced = SumReplacements(writtenLog)
    /\ logger_imports_added = ImportsWritten(writtenLog)
    /\ logger_imports_added <= files_processed

====
